---- MODULE Spec2Model ----
(***************************************************************************)
(* Force laws of the zoom particle library (src/particle/mod.rs) over the  *)
(* Cartesian1 vector (src/vector/cartesian1.rs).                           *)
(*                                                                         *)
(* Scalars (the type parameter D: Float) are modelled as exact extended    *)
(* rationals <<n, d>>: d > 0 is the finite value n/d in lowest terms,      *)
(* <<1,0>> is +inf, <<-1,0>> is -inf and <<0,0>> is NaN.  Rounding and the *)
(* sign of zero are outside the model; division by zero and the            *)
(* propagation of inf/NaN follow IEEE-754.                                 *)
(*                                                                         *)
(* Vectors are sequences of scalars: length 1 is Cartesian1 (from the      *)
(* source), length 3 is a three-dimensional Cartesian vector implementing  *)
(* CrossVector (the Vector/CrossVector traits and every implementation but *)
(* Cartesian1 are not part of the sources at hand; they follow the         *)
(* specification's section 3 and 4.1).                                     *)
(***************************************************************************)
EXTENDS Integers, Sequences, FiniteSets, TLC

\* ------------------------------------------------------------------ bounds
MaxPos == 1

MaxRadius == 2

MaxEquilibrium == 2

\* ------------------------------------------------- scalars (num::Float, D)
Abs(i) == IF i < 0 THEN -i ELSE i

Sign(i) == IF i < 0 THEN -1 ELSE IF i = 0 THEN 0 ELSE 1

RECURSIVE Gcd(_, _)
Gcd(a, b) == IF b = 0 THEN a ELSE Gcd(b, a % b)

\* n/d in lowest terms with a non-negative denominator; n/0 is inf or NaN
Norm(n, d) ==
  IF d = 0 THEN <<Sign(n), 0>>
  ELSE LET g == Gcd(Abs(n), Abs(d))
           s == Sign(d)
       IN <<(s * n) \div g, (s * d) \div g>>

R(i) == <<i, 1>>

NaN == <<0, 0>>

IsNaN(a) == a = NaN

IsInfinite(a) == a[2] = 0 /\ a[1] # 0

IsFinite(a) == a[2] > 0

FNeg(a) == <<-a[1], a[2]>>

FAdd(a, b) ==
  IF IsNaN(a) \/ IsNaN(b) THEN NaN
  ELSE IF IsInfinite(a) /\ IsInfinite(b) THEN (IF a = b THEN a ELSE NaN)
  ELSE IF IsInfinite(a) THEN a
  ELSE IF IsInfinite(b) THEN b
  ELSE Norm(a[1] * b[2] + b[1] * a[2], a[2] * b[2])

FSub(a, b) == FAdd(a, FNeg(b))

FMul(a, b) == Norm(a[1] * b[1], a[2] * b[2])

\* 1/a: 1/0 is +inf (zero is unsigned here), 1/inf is 0, 1/NaN is NaN
FInv(a) ==
  IF IsNaN(a) THEN NaN
  ELSE IF a[1] < 0 THEN <<-a[2], -a[1]>>
  ELSE <<a[2], a[1]>>

FDiv(a, b) == FMul(a, FInv(b))

\* a > b; every comparison with NaN is false
FGt(a, b) ==
  IF IsNaN(a) \/ IsNaN(b) THEN FALSE
  ELSE IF IsInfinite(a) /\ IsInfinite(b) THEN a[1] > b[1]
  ELSE a[1] * b[2] > b[1] * a[2]

RECURSIVE ISqrtFrom(_, _)
ISqrtFrom(n, k) == IF (k + 1) * (k + 1) > n THEN k ELSE ISqrtFrom(n, k + 1)

ISqrt(n) == ISqrtFrom(n, 0)

IsSquare(n) == n >= 0 /\ ISqrt(n) * ISqrt(n) = n

\* Float::sqrt; exact on the squares of rationals, which is all the model
\* feeds it (Init keeps every separation's norm rational)
FSqrt(a) ==
  IF IsNaN(a) \/ a[1] < 0 THEN NaN
  ELSE IF IsInfinite(a) THEN a
  ELSE <<ISqrt(a[1]), ISqrt(a[2])>>

RECURSIVE powi(_, _)
powi(a, k) == IF k = 0 THEN R(1) ELSE FMul(a, powi(a, k - 1))

\* ------------------------------- vectors (V: Vector<D>), std::ops impls
VAdd(a, b) == [i \in DOMAIN a |-> FAdd(a[i], b[i])]

VSub(a, b) == [i \in DOMAIN a |-> FSub(a[i], b[i])]

VMul(a, s) == [i \in DOMAIN a |-> FMul(a[i], s)]

VDiv(a, s) == [i \in DOMAIN a |-> FDiv(a[i], s)]

VNeg(a) == [i \in DOMAIN a |-> FNeg(a[i])]

VZero(n) == [i \in 1..n |-> R(0)]

Cartesian1_dot(l, r) == FMul(l[1], r[1])

Cartesian1_displacement(v) == v[1]

Cartesian3_dot(l, r) ==
  FAdd(FAdd(FMul(l[1], r[1]), FMul(l[2], r[2])), FMul(l[3], r[3]))

dot(l, r) == IF Len(l) = 1 THEN Cartesian1_dot(l, r) ELSE Cartesian3_dot(l, r)

\* Vector's provided methods, which Cartesian1 does not override
displacement_squared(v) == dot(v, v)

Vector_displacement(v) == FSqrt(displacement_squared(v))

displacement(v) ==
  IF Len(v) = 1 THEN Cartesian1_displacement(v) ELSE Vector_displacement(v)

normalized(v) == VDiv(v, displacement(v))

\* CrossVector, implemented for three dimensions only
cross(a, b) ==
  << FSub(FMul(a[2], b[3]), FMul(a[3], b[2])),
     FSub(FMul(a[3], b[1]), FMul(a[1], b[3])),
     FSub(FMul(a[1], b[2]), FMul(a[2], b[1])) >>

HasCross(v) == Len(v) = 3

\* ------------------------------------------- particles (capability traits)
quanta(p) == p.quanta

inertia(p) == p.inertia

position(p) == p.position

velocity(p) == p.velocity

radius(p) == p.radius

radius_squared(p) == powi(radius(p), 2)

\* BasicParticle's Particle implementation
accelerate(p, vec) == [p EXCEPT !.velocity = VAdd(@, vec)]

advance(p, time) == [p EXCEPT !.position = VAdd(@, VMul(p.velocity, time))]

\* one entry of the log of mutator calls a law makes
Call(who, what, v) == [on |-> who, method |-> what, vec |-> v]

\* ------------------------------------------ force laws (PhysicsParticle)
\* Every law yields the two participants after the call, the mutator calls
\* it made in order, and the divisor chosen by a finite-radius law.
Outcome(l, r, cs, dv) == [lhs |-> l, rhs |-> r, calls |-> cs, divisor |-> dv]

\* the laws on one particle alone have no second participant to yield
Outcome1(l, cs) == [lhs |-> l, calls |-> cs]

drag(self, magnitude) ==
  LET acceleration == VDiv(VMul(VNeg(velocity(self)), magnitude), inertia(self))
  IN Outcome1(accelerate(self, acceleration),
              <<Call("lhs", "accelerate", acceleration)>>)

\* gravitate pushing rhs the same way as lhs
gravitate_same_direction(lhs0, rhs0, magnitude) ==
  LET delta == VSub(position(rhs0), position(lhs0))
      distance == displacement(delta)
      force == VMul(VMul(VDiv(VMul(delta, magnitude), powi(distance, 3)),
                         quanta(lhs0)), quanta(rhs0))
      acceleration1 == VDiv(force, inertia(lhs0))
      lhs1 == accelerate(lhs0, acceleration1)
      acceleration2 == VDiv(force, inertia(rhs0))
      rhs1 == accelerate(rhs0, acceleration2)
  IN Outcome(lhs1, rhs1,
             <<Call("lhs", "accelerate", acceleration1),
               Call("rhs", "accelerate", acceleration2)>>, <<>>)

gravitate(lhs0, rhs0, magnitude) ==
  LET delta == VSub(position(rhs0), position(lhs0))
      distance == displacement(delta)
      force == VMul(VMul(VDiv(VMul(delta, magnitude), powi(distance, 3)),
                         quanta(lhs0)), quanta(rhs0))
      acceleration1 == VDiv(force, inertia(lhs0))
      lhs1 == accelerate(lhs0, acceleration1)
      acceleration2 == VDiv(VNeg(force), inertia(rhs0))
      rhs1 == accelerate(rhs0, acceleration2)
  IN Outcome(lhs1, rhs1,
             <<Call("lhs", "accelerate", acceleration1),
               Call("rhs", "accelerate", acceleration2)>>, <<>>)

\* gravitate_radius_squared taking the point-particle branch at the boundary
gravitate_radius_squared_at_boundary(lhs0, rhs0, radius_sq, magnitude) ==
  LET delta == VSub(position(rhs0), position(lhs0))
      distance_squared == displacement_squared(delta)
      divisor == IF ~FGt(radius_sq, distance_squared)
                 THEN powi(FSqrt(distance_squared), 3)
                 ELSE radius_sq
      force == VDiv(VMul(VMul(VMul(delta, magnitude), quanta(lhs0)),
                         quanta(rhs0)), divisor)
      acceleration1 == VDiv(force, inertia(lhs0))
      lhs1 == accelerate(lhs0, acceleration1)
      acceleration2 == VDiv(VNeg(force), inertia(rhs0))
      rhs1 == accelerate(rhs0, acceleration2)
  IN Outcome(lhs1, rhs1,
             <<Call("lhs", "accelerate", acceleration1),
               Call("rhs", "accelerate", acceleration2)>>, <<divisor>>)

gravitate_radius_squared(lhs0, rhs0, radius_sq, magnitude) ==
  LET delta == VSub(position(rhs0), position(lhs0))
      distance_squared == displacement_squared(delta)
      divisor == IF FGt(distance_squared, radius_sq)
                 THEN powi(FSqrt(distance_squared), 3)
                 ELSE radius_sq
      force == VDiv(VMul(VMul(VMul(delta, magnitude), quanta(lhs0)),
                         quanta(rhs0)), divisor)
      acceleration1 == VDiv(force, inertia(lhs0))
      lhs1 == accelerate(lhs0, acceleration1)
      acceleration2 == VDiv(VNeg(force), inertia(rhs0))
      rhs1 == accelerate(rhs0, acceleration2)
  IN Outcome(lhs1, rhs1,
             <<Call("lhs", "accelerate", acceleration1),
               Call("rhs", "accelerate", acceleration2)>>, <<divisor>>)

gravitate_radius(lhs0, rhs0, rad, magnitude) ==
  gravitate_radius_squared(lhs0, rhs0, FMul(rad, rad), magnitude)

\* gravitate_to giving the center the opposite push as well
gravitate_to_with_recoil(self, center, magnitude) ==
  LET delta == VSub(position(center), position(self))
      distance == displacement(delta)
      acceleration ==
        VDiv(VMul(VMul(VMul(VDiv(delta, powi(distance, 3)), magnitude),
                       quanta(self)), quanta(center)), inertia(self))
  IN Outcome(accelerate(self, acceleration),
             accelerate(center, VNeg(acceleration)),
             <<Call("lhs", "accelerate", acceleration),
               Call("rhs", "accelerate", VNeg(acceleration))>>, <<>>)

gravitate_to(self, center, magnitude) ==
  LET delta == VSub(position(center), position(self))
      distance == displacement(delta)
      acceleration ==
        VDiv(VMul(VMul(VMul(VDiv(delta, powi(distance, 3)), magnitude),
                       quanta(self)), quanta(center)), inertia(self))
  IN Outcome(accelerate(self, acceleration), center,
             <<Call("lhs", "accelerate", acceleration)>>, <<>>)

gravitate_radius_to(self, center, magnitude) ==
  LET delta == VSub(position(center), position(self))
      distance_squared == displacement_squared(delta)
      divisor == IF FGt(distance_squared, radius_squared(center))
                 THEN powi(FSqrt(distance_squared), 3)
                 ELSE radius_squared(center)
      acceleration ==
        VDiv(VMul(VMul(VMul(delta, magnitude), quanta(self)), quanta(center)),
             FMul(inertia(self), divisor))
  IN Outcome(accelerate(self, acceleration), center,
             <<Call("lhs", "accelerate", acceleration)>>, <<divisor>>)

hooke(lhs0, rhs0, magnitude) ==
  LET delta == VSub(position(rhs0), position(lhs0))
      force == VMul(VMul(VMul(VMul(normalized(delta), magnitude),
                              displacement(delta)), quanta(lhs0)), quanta(rhs0))
      acceleration1 == VDiv(force, inertia(lhs0))
      lhs1 == accelerate(lhs0, acceleration1)
      acceleration2 == VDiv(VNeg(force), inertia(rhs0))
      rhs1 == accelerate(rhs0, acceleration2)
  IN Outcome(lhs1, rhs1,
             <<Call("lhs", "accelerate", acceleration1),
               Call("rhs", "accelerate", acceleration2)>>, <<>>)

hooke_equilibrium(lhs0, rhs0, equilibrium, magnitude) ==
  LET delta == VSub(position(rhs0), position(lhs0))
      force == VMul(VMul(VMul(VMul(normalized(delta), magnitude),
                              FSub(displacement(delta), equilibrium)),
                         quanta(lhs0)), quanta(rhs0))
      acceleration1 == VDiv(force, inertia(lhs0))
      lhs1 == accelerate(lhs0, acceleration1)
      acceleration2 == VDiv(VNeg(force), inertia(rhs0))
      rhs1 == accelerate(rhs0, acceleration2)
  IN Outcome(lhs1, rhs1,
             <<Call("lhs", "accelerate", acceleration1),
               Call("rhs", "accelerate", acceleration2)>>, <<>>)

hooke_to(self, center, magnitude) ==
  LET delta == VSub(position(center), position(self))
      acceleration ==
        VDiv(VMul(VMul(VMul(VMul(normalized(delta), displacement(delta)),
                            magnitude), quanta(self)), quanta(center)),
             inertia(self))
  IN Outcome(accelerate(self, acceleration), center,
             <<Call("lhs", "accelerate", acceleration)>>, <<>>)

hooke_equilibrium_to(self, center, equilibrium, magnitude) ==
  LET delta == VSub(position(center), position(self))
      acceleration ==
        VDiv(VMul(VMul(VMul(VMul(normalized(delta),
                                 FSub(displacement(delta), equilibrium)),
                            magnitude), quanta(self)), quanta(center)),
             inertia(self))
  IN Outcome(accelerate(self, acceleration), center,
             <<Call("lhs", "accelerate", acceleration)>>, <<>>)

\* lorentz taking the force on rhs from lhs's velocity after its acceleration
lorentz_reread(lhs0, rhs0, magnitude) ==
  LET delta == VSub(position(rhs0), position(lhs0))
      distance == displacement(delta)
      force == VMul(VDiv(VMul(VMul(cross(velocity(rhs0),
                                         cross(velocity(lhs0), delta)),
                                   quanta(lhs0)), quanta(rhs0)),
                         powi(distance, 3)), magnitude)
      acceleration1 == VDiv(VNeg(force), inertia(lhs0))
      lhs1 == accelerate(lhs0, acceleration1)
      force2 == VMul(VDiv(VMul(VMul(cross(velocity(rhs0),
                                          cross(velocity(lhs1), delta)),
                                    quanta(lhs1)), quanta(rhs0)),
                          powi(distance, 3)), magnitude)
      acceleration2 == VDiv(force2, inertia(rhs0))
      rhs1 == accelerate(rhs0, acceleration2)
  IN Outcome(lhs1, rhs1,
             <<Call("lhs", "accelerate", acceleration1),
               Call("rhs", "accelerate", acceleration2)>>, <<>>)

lorentz(lhs0, rhs0, magnitude) ==
  LET delta == VSub(position(rhs0), position(lhs0))
      distance == displacement(delta)
      force == VMul(VDiv(VMul(VMul(cross(velocity(rhs0),
                                         cross(velocity(lhs0), delta)),
                                   quanta(lhs0)), quanta(rhs0)),
                         powi(distance, 3)), magnitude)
      acceleration1 == VDiv(VNeg(force), inertia(lhs0))
      lhs1 == accelerate(lhs0, acceleration1)
      acceleration2 == VDiv(force, inertia(rhs0))
      rhs1 == accelerate(rhs0, acceleration2)
  IN Outcome(lhs1, rhs1,
             <<Call("lhs", "accelerate", acceleration1),
               Call("rhs", "accelerate", acceleration2)>>, <<>>)

lorentz_radius_squared(lhs0, rhs0, radius_sq, magnitude) ==
  LET delta == VSub(position(rhs0), position(lhs0))
      distance_squared == displacement_squared(delta)
      divisor == IF FGt(distance_squared, radius_sq)
                 THEN powi(FSqrt(distance_squared), 3)
                 ELSE radius_sq
      force == VDiv(VMul(VMul(VMul(cross(velocity(rhs0),
                                         cross(velocity(lhs0), delta)),
                                   magnitude), quanta(lhs0)), quanta(rhs0)),
                    divisor)
      acceleration1 == VDiv(VNeg(force), inertia(lhs0))
      lhs1 == accelerate(lhs0, acceleration1)
      acceleration2 == VDiv(force, inertia(rhs0))
      rhs1 == accelerate(rhs0, acceleration2)
  IN Outcome(lhs1, rhs1,
             <<Call("lhs", "accelerate", acceleration1),
               Call("rhs", "accelerate", acceleration2)>>, <<divisor>>)

lorentz_radius(lhs0, rhs0, rad, magnitude) ==
  lorentz_radius_squared(lhs0, rhs0, FMul(rad, rad), magnitude)

lorentz_field(self, field) ==
  LET acceleration ==
        VDiv(VMul(cross(velocity(self), field), quanta(self)), inertia(self))
  IN Outcome1(accelerate(self, acceleration),
              <<Call("lhs", "accelerate", acceleration)>>)

\* lorentz_to without the negation of the force
lorentz_to_unnegated(lhs0, center, magnitude) ==
  LET delta == VSub(position(center), position(lhs0))
      distance_squared == displacement_squared(delta)
      divisor == IF FGt(distance_squared, radius_squared(center))
                 THEN powi(FSqrt(distance_squared), 3)
                 ELSE radius_squared(center)
      force == VDiv(VMul(VMul(VMul(cross(velocity(center),
                                         cross(velocity(lhs0), delta)),
                                   magnitude), quanta(lhs0)), quanta(center)),
                    divisor)
      acceleration == VDiv(force, inertia(lhs0))
  IN Outcome(accelerate(lhs0, acceleration), center,
             <<Call("lhs", "accelerate", acceleration)>>, <<divisor>>)

lorentz_to(lhs0, center, magnitude) ==
  LET delta == VSub(position(center), position(lhs0))
      distance_squared == displacement_squared(delta)
      divisor == IF FGt(distance_squared, radius_squared(center))
                 THEN powi(FSqrt(distance_squared), 3)
                 ELSE radius_squared(center)
      force == VDiv(VMul(VMul(VMul(cross(velocity(center),
                                         cross(velocity(lhs0), delta)),
                                   magnitude), quanta(lhs0)), quanta(center)),
                    divisor)
      acceleration == VDiv(VNeg(force), inertia(lhs0))
  IN Outcome(accelerate(lhs0, acceleration), center,
             <<Call("lhs", "accelerate", acceleration)>>, <<divisor>>)

\* ------------------------------------------------------------ the caller
Quanta == {R(1), R(-2)}

Inertias == {R(1), R(2)}

Radii == {R(i) : i \in 0..MaxRadius}

RadiusSquares == {FMul(r, r) : r \in Radii}

Magnitudes == {R(-1), R(1)}

Equilibria == {R(i) : i \in 0..MaxEquilibrium}

Times == {R(1), R(2)}

Pos1 == {<<R(x)>> : x \in (-MaxPos)..MaxPos}

Vel1 == {<<R(-1)>>, <<R(1)>>}

Pos3 == {<<R(0), R(0), R(0)>>, <<R(2), R(0), R(0)>>, <<R(0), R(1), R(0)>>}

Vel3 == {<<R(1), R(0), R(0)>>, <<R(0), R(1), R(1)>>}

Fields == {<<R(0), R(0), R(0)>>, <<R(0), R(0), R(1)>>}

Positions(n) == IF n = 1 THEN Pos1 ELSE Pos3

Velocities(n) == IF n = 1 THEN Vel1 ELSE Vel3

\* the squared Euclidean length of v, and whether its root is rational
SumSquares(v) ==
  IF Len(v) = 1 THEN FMul(v[1], v[1])
  ELSE FAdd(FAdd(FMul(v[1], v[1]), FMul(v[2], v[2])), FMul(v[3], v[3]))

RationalNorm(v) == IsSquare(SumSquares(v)[1]) /\ IsSquare(SumSquares(v)[2])

VARIABLES lhs, rhs, entry, op, args, calls, divisor, ret

vars == <<lhs, rhs, entry, op, args, calls, divisor, ret>>

Init ==
  /\ \E n \in {1, 3} :
       /\ lhs \in [quanta : Quanta, position : Positions(n),
                   velocity : Velocities(n), inertia : Inertias]
       /\ rhs \in [quanta : Quanta, position : Positions(n),
                   velocity : Velocities(n), inertia : Inertias, radius : Radii]
  /\ RationalNorm(VSub(rhs.position, lhs.position))
  /\ entry = [lhs |-> lhs, rhs |-> rhs]
  /\ op = "none"
  /\ args = [magnitude |-> R(0)]
  /\ calls = <<>>
  /\ divisor = <<>>
  /\ ret = <<>>

\* a call of a law on both participants
Apply(name, a, out) ==
  /\ op = "none"
  /\ op' = name
  /\ args' = a
  /\ entry' = [lhs |-> lhs, rhs |-> rhs]
  /\ lhs' = out.lhs
  /\ rhs' = out.rhs
  /\ calls' = out.calls
  /\ divisor' = out.divisor
  /\ UNCHANGED ret

\* a call of a law on lhs alone
Apply1(name, a, out) ==
  /\ op = "none"
  /\ op' = name
  /\ args' = a
  /\ entry' = [lhs |-> lhs, rhs |-> rhs]
  /\ lhs' = out.lhs
  /\ calls' = out.calls
  /\ UNCHANGED <<rhs, divisor, ret>>

CallDrag ==
  \E m \in Magnitudes : Apply1("drag", [magnitude |-> m], drag(lhs, m))

CallGravitate ==
  \E m \in Magnitudes :
    Apply("gravitate", [magnitude |-> m], gravitate(lhs, rhs, m))

CallGravitateRadiusSquared ==
  \E m \in Magnitudes, rs \in RadiusSquares :
    Apply("gravitate_radius_squared", [magnitude |-> m, radius_squared |-> rs],
          gravitate_radius_squared(lhs, rhs, rs, m))

CallGravitateRadius ==
  \E m \in Magnitudes, r \in Radii :
    Apply("gravitate_radius", [magnitude |-> m, radius |-> r],
          gravitate_radius(lhs, rhs, r, m))

CallGravitateTo ==
  \E m \in Magnitudes :
    Apply("gravitate_to", [magnitude |-> m], gravitate_to(lhs, rhs, m))

CallGravitateRadiusTo ==
  \E m \in Magnitudes :
    Apply("gravitate_radius_to", [magnitude |-> m],
          gravitate_radius_to(lhs, rhs, m))

CallHooke ==
  \E m \in Magnitudes : Apply("hooke", [magnitude |-> m], hooke(lhs, rhs, m))

CallHookeEquilibrium ==
  \E m \in Magnitudes, e \in Equilibria :
    Apply("hooke_equilibrium", [magnitude |-> m, equilibrium |-> e],
          hooke_equilibrium(lhs, rhs, e, m))

CallHookeTo ==
  \E m \in Magnitudes :
    Apply("hooke_to", [magnitude |-> m], hooke_to(lhs, rhs, m))

CallHookeEquilibriumTo ==
  \E m \in Magnitudes, e \in Equilibria :
    Apply("hooke_equilibrium_to", [magnitude |-> m, equilibrium |-> e],
          hooke_equilibrium_to(lhs, rhs, e, m))

\* the Lorentz laws bind only where V: CrossVector
CallLorentz ==
  /\ HasCross(lhs.position)
  /\ \E m \in Magnitudes :
       Apply("lorentz", [magnitude |-> m], lorentz(lhs, rhs, m))

CallLorentzRadiusSquared ==
  /\ HasCross(lhs.position)
  /\ \E m \in Magnitudes, rs \in RadiusSquares :
       Apply("lorentz_radius_squared", [magnitude |-> m, radius_squared |-> rs],
             lorentz_radius_squared(lhs, rhs, rs, m))

CallLorentzRadius ==
  /\ HasCross(lhs.position)
  /\ \E m \in Magnitudes, r \in Radii :
       Apply("lorentz_radius", [magnitude |-> m, radius |-> r],
             lorentz_radius(lhs, rhs, r, m))

CallLorentzField ==
  /\ HasCross(lhs.position)
  /\ \E f \in Fields :
       Apply1("lorentz_field", [field |-> f], lorentz_field(lhs, f))

CallLorentzTo ==
  /\ HasCross(lhs.position)
  /\ \E m \in Magnitudes :
       Apply("lorentz_to", [magnitude |-> m], lorentz_to(lhs, rhs, m))

\* the caller advances lhs itself
CallAdvance ==
  /\ op = "none"
  /\ \E t \in Times :
       /\ op' = "advance"
       /\ args' = [time |-> t]
       /\ entry' = [lhs |-> lhs, rhs |-> rhs]
       /\ lhs' = advance(lhs, t)
       /\ calls' = <<Call("lhs", "advance", VZero(Len(lhs.position)))>>
  /\ UNCHANGED <<rhs, divisor, ret>>

\* the caller measures the position vector of lhs and of its mirror image
CallDisplacement ==
  /\ op = "none"
  /\ op' = "displacement"
  /\ args' = [v |-> lhs.position]
  /\ entry' = [lhs |-> lhs, rhs |-> rhs]
  /\ ret' = <<[displacement |-> displacement(lhs.position),
              mirrored |-> displacement(VNeg(lhs.position)),
              squared |-> displacement_squared(lhs.position),
              dot |-> dot(lhs.position, lhs.position)]>>
  /\ UNCHANGED <<lhs, rhs, calls, divisor>>

Next ==
  \/ CallDrag
  \/ CallGravitate
  \/ CallGravitateRadiusSquared
  \/ CallGravitateRadius
  \/ CallGravitateTo
  \/ CallGravitateRadiusTo
  \/ CallHooke
  \/ CallHookeEquilibrium
  \/ CallHookeTo
  \/ CallHookeEquilibriumTo
  \/ CallLorentz
  \/ CallLorentzRadiusSquared
  \/ CallLorentzRadius
  \/ CallLorentzField
  \/ CallLorentzTo
  \/ CallAdvance
  \/ CallDisplacement

Spec == Init /\ [][Next]_vars

\* ================================================================ claims
\* vocabulary of the properties, in terms of the values at call entry
Delta == VSub(entry.rhs.position, entry.lhs.position)

Separated == SumSquares(Delta) # R(0)

Distance == FSqrt(SumSquares(Delta))

IsCartesian1 == Len(entry.lhs.position) = 1

Positive(a) == FGt(a, R(0))

LikeSigned == Positive(FMul(entry.lhs.quanta, entry.rhs.quanta))

\* the Euclidean inner product, whatever the vector type computes
Inner(a, b) ==
  IF Len(a) = 1 THEN FMul(a[1], b[1])
  ELSE FAdd(FAdd(FMul(a[1], b[1]), FMul(a[2], b[2])), FMul(a[3], b[3]))

Toward(acc, dir) == Positive(Inner(acc, dir))

IsZeroVector(v) == \A k \in DOMAIN v : v[k] = R(0)

FiniteVector(v) == \A k \in DOMAIN v : IsFinite(v[k])

PairLaws ==
  {"gravitate", "gravitate_radius_squared", "hooke", "hooke_equilibrium",
   "lorentz", "lorentz_radius_squared"}

TwoBodyLaws == PairLaws \cup {"gravitate_radius", "lorentz_radius"}

OneSidedLaws ==
  {"gravitate_to", "gravitate_radius_to", "hooke_to", "hooke_equilibrium_to",
   "lorentz_to", "lorentz_field", "drag"}

FiniteRadiusLaws ==
  {"gravitate_radius_squared", "gravitate_radius_to",
   "lorentz_radius_squared", "lorentz_to"}

\* C1: Newton's third law. After every two-body law called at non-zero
\* separation, the vector given to lhs.accelerate times lhs's inertia is the
\* negation of the vector given to rhs.accelerate times rhs's inertia.
C1_ThirdLaw ==
  (op \in PairLaws /\ Separated) =>
    VMul(calls[1].vec, entry.lhs.inertia)
      = VNeg(VMul(calls[2].vec, entry.rhs.inertia))

C1_Witness ==
  /\ op = "gravitate"
  /\ Separated
  /\ entry.lhs.inertia # entry.rhs.inertia
  /\ ~IsZeroVector(calls[1].vec)
  /\ FiniteVector(calls[1].vec)

\* C2: gravitate attracts. With positive magnitude, like-signed quanta and
\* non-zero separation of Cartesian1 positions, lhs is accelerated toward rhs
\* and rhs toward lhs; with unit quanta, inertias, magnitude and separation
\* both accelerations have magnitude 1.
C2_GravitateAttracts ==
  (op = "gravitate" /\ IsCartesian1 /\ Separated /\ LikeSigned
     /\ Positive(args.magnitude)) =>
    /\ Toward(calls[1].vec, Delta)
    /\ Toward(calls[2].vec, VNeg(Delta))
    /\ (/\ entry.lhs.quanta = R(1) /\ entry.rhs.quanta = R(1)
        /\ entry.lhs.inertia = R(1) /\ entry.rhs.inertia = R(1)
        /\ args.magnitude = R(1) /\ Distance = R(1))
       => /\ Inner(calls[1].vec, calls[1].vec) = R(1)
          /\ Inner(calls[2].vec, calls[2].vec) = R(1)

\* C3: Hooke equilibrium. In hooke_equilibrium and hooke_equilibrium_to at
\* non-zero separation, the acceleration is the zero vector when the distance
\* equals the equilibrium; with positive magnitude and like-signed quanta lhs
\* is accelerated toward the other particle when the distance is greater and
\* away from it when the distance is smaller.
C3_HookeEquilibrium ==
  (op \in {"hooke_equilibrium", "hooke_equilibrium_to"} /\ Separated) =>
    /\ Distance = args.equilibrium =>
         \A i \in DOMAIN calls : IsZeroVector(calls[i].vec)
    /\ (LikeSigned /\ Positive(args.magnitude)
          /\ FGt(Distance, args.equilibrium)) => Toward(calls[1].vec, Delta)
    /\ (LikeSigned /\ Positive(args.magnitude)
          /\ FGt(args.equilibrium, Distance)) =>
         Toward(calls[1].vec, VNeg(Delta))

\* what the point-particle branch of the law just called gives to lhs
PointBranchAcceleration ==
  IF op = "gravitate_radius_squared"
  THEN gravitate_radius_squared(entry.lhs, entry.rhs, R(0),
                                args.magnitude).calls[1].vec
  ELSE lorentz_radius_squared(entry.lhs, entry.rhs, R(0),
                              args.magnitude).calls[1].vec

\* C4: softening continuity. When gravitate_radius_squared or
\* lorentz_radius_squared is called with the squared distance equal to a
\* positive radius_squared, the softened branch it takes gives the
\* acceleration the point-particle branch gives for the same particles.
C4_SofteningContinuity ==
  (op \in {"gravitate_radius_squared", "lorentz_radius_squared"}
     /\ Positive(args.radius_squared)
     /\ SumSquares(Delta) = args.radius_squared) =>
    calls[1].vec = PointBranchAcceleration

\* C5: softening limit. gravitate_radius_squared called on Cartesian1
\* positions at non-zero separation with radius_squared below the squared
\* distance makes the accelerate calls plain gravitate makes.
C5_SofteningLimit ==
  (op = "gravitate_radius_squared" /\ IsCartesian1 /\ Separated
     /\ FGt(SumSquares(Delta), args.radius_squared)) =>
    calls = gravitate(entry.lhs, entry.rhs, args.magnitude).calls

\* C6: frame of the force laws. A one-sided law makes one accelerate call,
\* on lhs, and leaves the center as it was; a two-body law makes one
\* accelerate call on lhs and then one on rhs; no law calls advance or
\* changes a position, a quanta or an inertia, and the new velocities are
\* the old ones plus the vectors passed to accelerate.
C6_Frame ==
  /\ op \in OneSidedLaws =>
       /\ Len(calls) = 1
       /\ calls[1].on = "lhs" /\ calls[1].method = "accelerate"
       /\ rhs = entry.rhs
       /\ lhs = [entry.lhs EXCEPT !.velocity = VAdd(@, calls[1].vec)]
  /\ op \in TwoBodyLaws =>
       /\ Len(calls) = 2
       /\ calls[1].on = "lhs" /\ calls[1].method = "accelerate"
       /\ calls[2].on = "rhs" /\ calls[2].method = "accelerate"
       /\ lhs = [entry.lhs EXCEPT !.velocity = VAdd(@, calls[1].vec)]
       /\ rhs = [entry.rhs EXCEPT !.velocity = VAdd(@, calls[2].vec)]

C6_Witness ==
  /\ op = "gravitate_to"
  /\ Separated
  /\ lhs.velocity # entry.lhs.velocity
  /\ FiniteVector(lhs.velocity)

\* C7: Cartesian1 displacement is the Euclidean norm: non-negative, the same
\* for v and -v, and its square is dot(v, v).
C7_DisplacementIsNorm ==
  (op = "displacement" /\ Len(args.v) = 1) =>
    /\ ~FGt(R(0), ret[1].displacement)
    /\ ret[1].displacement = ret[1].mirrored
    /\ FMul(ret[1].displacement, ret[1].displacement) = ret[1].dot

RadiusSquaredOfCall ==
  IF op \in {"gravitate_radius_squared", "lorentz_radius_squared"}
  THEN args.radius_squared
  ELSE FMul(entry.rhs.radius, entry.rhs.radius)

DivisorPolicy ==
  divisor[1] = IF FGt(SumSquares(Delta), RadiusSquaredOfCall)
               THEN FMul(Distance, FMul(Distance, Distance))
               ELSE RadiusSquaredOfCall

FiniteOutcome ==
  /\ divisor[1] # R(0)
  /\ \A i \in DOMAIN calls : FiniteVector(calls[i].vec)

\* C8 as stated: in the finite-radius laws the divisor is radius_squared when
\* the squared distance is at most radius_squared and the cube of the
\* distance otherwise, and at every separation it is non-zero and the
\* acceleration finite.
C8_AlwaysFinite ==
  op \in FiniteRadiusLaws => (DivisorPolicy /\ FiniteOutcome)

\* C8 amended: the divisor is chosen as stated, and it is non-zero and the
\* acceleration finite whenever radius_squared is positive or the separation
\* is non-zero.
C8_FiniteWhenSoftened ==
  op \in FiniteRadiusLaws =>
    /\ DivisorPolicy
    /\ (Positive(RadiusSquaredOfCall) \/ Separated) => FiniteOutcome

C8_Witness ==
  /\ op = "gravitate_radius_squared"
  /\ ~Separated
  /\ Positive(args.radius_squared)
  /\ divisor[1] = args.radius_squared
  /\ IsZeroVector(calls[1].vec)

\* the divisor of the finite-radius form of a law, from the values at entry
EntryDivisor(rsq) ==
  IF FGt(displacement_squared(Delta), rsq)
  THEN powi(FSqrt(displacement_squared(Delta)), 3)
  ELSE rsq

\* the force of section 4.2's table for the law just called, from the
\* positions, velocities and quanta at entry
EntryForce ==
  LET qq == FMul(entry.lhs.quanta, entry.rhs.quanta)
      m == args.magnitude
      xx == cross(entry.rhs.velocity, cross(entry.lhs.velocity, Delta))
  IN CASE op = "gravitate" ->
            VMul(VDiv(VMul(Delta, m), powi(displacement(Delta), 3)), qq)
       [] op = "gravitate_radius_squared" ->
            VMul(VDiv(VMul(Delta, m), EntryDivisor(args.radius_squared)), qq)
       [] op = "hooke" ->
            VMul(VMul(VMul(normalized(Delta), m), displacement(Delta)), qq)
       [] op = "hooke_equilibrium" ->
            VMul(VMul(VMul(normalized(Delta), m),
                      FSub(displacement(Delta), args.equilibrium)), qq)
       [] op = "lorentz" ->
            VNeg(VDiv(VMul(VMul(xx, m), qq), powi(displacement(Delta), 3)))
       [] op = "lorentz_radius_squared" ->
            VNeg(VDiv(VMul(VMul(xx, m), qq), EntryDivisor(args.radius_squared)))

\* C9: read-then-mutate. In a two-body law both accelerations come from the
\* one force computed from the positions, velocities and quanta at entry,
\* and making the two accelerate calls in the other order on the entry state
\* gives the state the law left.
C9_ReadThenMutate ==
  (op \in PairLaws /\ Separated) =>
    /\ calls[1].vec = VDiv(EntryForce, entry.lhs.inertia)
    /\ calls[2].vec = VDiv(VNeg(EntryForce), entry.rhs.inertia)
    /\ rhs = accelerate(entry.rhs, calls[2].vec)
    /\ lhs = accelerate(entry.lhs, calls[1].vec)

C9_Witness ==
  /\ op = "lorentz"
  /\ Separated
  /\ ~IsZeroVector(calls[1].vec)
  /\ ~IsZeroVector(calls[2].vec)
  /\ lhs.velocity # entry.lhs.velocity

\* what the two-body counterpart of a one-sided law gives to lhs
CounterpartAcceleration ==
  LET m == args.magnitude
      rsq == radius_squared(entry.rhs)
  IN CASE op = "gravitate_to" ->
            gravitate(entry.lhs, entry.rhs, m).calls[1].vec
       [] op = "hooke_to" -> hooke(entry.lhs, entry.rhs, m).calls[1].vec
       [] op = "hooke_equilibrium_to" ->
            hooke_equilibrium(entry.lhs, entry.rhs, args.equilibrium,
                              m).calls[1].vec
       [] op = "gravitate_radius_to" ->
            gravitate_radius_squared(entry.lhs, entry.rhs, rsq,
                                     m).calls[1].vec
       [] op = "lorentz_to" ->
            lorentz_radius_squared(entry.lhs, entry.rhs, rsq, m).calls[1].vec

\* C10: each one-sided law gives lhs the acceleration its two-body
\* counterpart gives lhs for the same particles and magnitude, the
\* finite-radius ones with radius_squared = center.radius_squared().
C10_OneSidedMatches ==
  op \in {"gravitate_to", "hooke_to", "hooke_equilibrium_to",
          "gravitate_radius_to", "lorentz_to"} =>
    calls[1].vec = CounterpartAcceleration

C10_Witness ==
  /\ op = "lorentz_to"
  /\ Separated
  /\ ~IsZeroVector(calls[1].vec)
  /\ FiniteVector(calls[1].vec)

====
